---- MODULE Spec2Model ----
(***************************************************************************)
(* Role-gated CRUD over UserProfile, Task and Attendance (myapp/views.py), *)
(* the serializers that validate and persist the payloads                  *)
(* (myapp/serializers.py), the foreign keys of myapp/models.py and the two *)
(* periodic mail jobs of myapp/tasks.py.                                   *)
(*                                                                         *)
(* A payload is a record whose DOMAIN is the set of keys the client sent.  *)
(* A foreign key is a user id, or NULL.  Every handler is one action: it   *)
(* records the request in req, the response in resp, and writes the tables.*)
(***************************************************************************)
EXTENDS Integers, FiniteSets, Sequences, TLC

\* ------------------------------------------------------------------ bounds
MaxUserId == 3
MaxTaskId == 1
MaxAttId  == 1

\* ------------------------------------------------------- program constants
SUPERVISOR == "Supervisor"
INTERN     == "Intern"
RoleChoices == {SUPERVISOR, INTERN}
StatusChoices == {"P", "A", "L"}
UsernameMaxLength == 20
EmailMaxLength == 50
TitleMaxLength == 250

HTTP_200_OK == 200
HTTP_201_CREATED == 201
HTTP_400_BAD_REQUEST == 400
HTTP_401_UNAUTHORIZED == 401
HTTP_404_NOT_FOUND == 404
HTTP_500_INTERNAL_SERVER_ERROR == 500

NULL == 0          \* JSON null / SQL NULL in a foreign key column
Anonymous == 0     \* request.user of an unauthenticated request

VARIABLES
    users,        \* UserProfile table: id -> row
    tasks,        \* Task table: id -> row
    attendances,  \* Attendance table: id -> row
    tokens,       \* authtoken Token table: user id -> key
    sessions,     \* user ids that hold a logged-in session
    nextUserId, nextTaskId, nextAttId,  \* AUTOINCREMENT counters
    nextKey,      \* source of fresh token keys
    req,          \* the request just handled: handler, caller, pk, payload
    resp,         \* the response to it, with its handler
    jobs          \* the latest run of each periodic job: job name -> run

store == <<users, tasks, attendances>>
counters == <<nextUserId, nextTaskId, nextAttId>>
auth == <<tokens, sessions, nextKey>>
vars == <<users, tasks, attendances, tokens, sessions,
          nextUserId, nextTaskId, nextAttId, nextKey, req, resp, jobs>>

\* ------------------------------------------------------------ small helpers
Has(data, k) == k \in DOMAIN data
Get(data, k, default) == IF Has(data, k) THEN data[k] ELSE default

Put(table, id, row) == [i \in DOMAIN table \cup {id} |-> IF i = id THEN row ELSE table[i]]
Drop(table, ids) == [i \in DOMAIN table \ ids |-> table[i]]

\* request.user: an authenticated request carries an existing, active user.
Actors == {u \in DOMAIN users : users[u].is_active}

Request(op, actor, pk, data) == [op |-> op, actor |-> actor, pk |-> pk, data |-> data]
Response(status, kind, body) == [status |-> status, kind |-> kind, body |-> body]
NoData == [none |-> TRUE]

\* ------------------------------------------------------------- passwords
make_password(raw) == [hashed |-> TRUE, text |-> raw]
check_password(raw, stored) == stored.hashed /\ stored.text = raw

\* BooleanField.to_internal_value
ParseBool(v) == v = "true"
IsBool(v) == v \in {"true", "false"}

\* A date is a record of year, month and day; NoDate is the null of a
\* DateField(null=True).  DateField.to_internal_value takes a date or null.
NoDate == [y |-> 0, m |-> 0, d |-> 0]
IsDate(v) == DOMAIN v = {"y", "m", "d"}

\* ------------------------------------------------------------ serializers
\* UserProfileSerializer.is_valid: instance is the row being updated, or NULL.
UsernameTaken(name, instance) ==
    \E u \in DOMAIN users : u # instance /\ users[u].username = name

EmailTaken(email, instance) ==
    \E u \in DOMAIN users : u # instance /\ users[u].email = email

\* The payloads' email values are well formed: EmailValidator is not modelled.
UserIsValid(data, instance) ==
    /\ Has(data, "username")
    /\ Len(data.username) > 0
    /\ Len(data.username) <= UsernameMaxLength
    /\ ~UsernameTaken(data.username, instance)
    /\ Has(data, "email")
    /\ Len(data.email) > 0
    /\ Len(data.email) <= EmailMaxLength
    /\ ~EmailTaken(data.email, instance)
    /\ Has(data, "password")
    /\ Has(data, "role") => data.role \in RoleChoices
    /\ Has(data, "is_active") => IsBool(data.is_active)

\* to_representation: the password is write_only.
UserData(id, row) ==
    [id |-> id, username |-> row.username, email |-> row.email,
     role |-> row.role, is_active |-> row.is_active]
UserRepr(id) == UserData(id, users[id])

TaskFkOk(data, k) == Has(data, k) => (data[k] = NULL \/ data[k] \in DOMAIN users)

\* TaskSerializer.is_valid; a partial update does not require the title.
TaskIsValid(data, partial) ==
    /\ partial \/ Has(data, "title")
    /\ Has(data, "title") => (Len(data.title) > 0 /\ Len(data.title) <= TitleMaxLength)
    /\ Has(data, "is_completed") => IsBool(data.is_completed)
    /\ TaskFkOk(data, "assigned_to")
    /\ TaskFkOk(data, "assigned_by")
    /\ Has(data, "birth_date") => IsDate(data.birth_date)

TaskData(id, row) ==
    [id |-> id, title |-> row.title, is_completed |-> row.is_completed,
     assigned_to |-> row.assigned_to, assigned_by |-> row.assigned_by,
     birth_date |-> row.birth_date]
TaskRepr(id) == TaskData(id, tasks[id])

\* ModelSerializer.create for Task: absent keys take the model defaults.
TaskCreate(data) ==
    [title |-> data.title,
     is_completed |-> IF Has(data, "is_completed") THEN ParseBool(data.is_completed) ELSE FALSE,
     assigned_to |-> Get(data, "assigned_to", NULL),
     assigned_by |-> Get(data, "assigned_by", NULL),
     birth_date |-> Get(data, "birth_date", NoDate)]

\* ModelSerializer.update for Task: only the keys present are assigned.
TaskUpdate(row, data) ==
    [title |-> Get(data, "title", row.title),
     is_completed |-> IF Has(data, "is_completed") THEN ParseBool(data.is_completed)
                      ELSE row.is_completed,
     assigned_to |-> Get(data, "assigned_to", row.assigned_to),
     assigned_by |-> Get(data, "assigned_by", row.assigned_by),
     birth_date |-> Get(data, "birth_date", row.birth_date)]

\* AttendanceSerializer.is_valid: user is required and not nullable.
AttendanceIsValid(data) ==
    /\ Has(data, "user")
    /\ data.user \in DOMAIN users
    /\ Has(data, "status") => data.status \in StatusChoices

AttendanceData(id, row) == [id |-> id, user |-> row.user, status |-> row.status]
AttendanceRepr(id) == AttendanceData(id, attendances[id])

AttendanceCreate(data) ==
    [user |-> data.user, status |-> Get(data, "status", "A")]

AttendanceUpdate(row, data) ==
    [user |-> Get(data, "user", row.user), status |-> Get(data, "status", row.status)]


\* UserProfileSerializer.create: create_user is given exactly four keys, so
\* every other validated key is left to the model default; a payload without
\* "role" raises KeyError (reported by CreateRaises).
CreateRaises(data) == ~Has(data, "role")

UserCreate(data) ==
    [username |-> data.username, email |-> data.email,
     password |-> make_password(data.password),
     role |-> data.role, is_active |-> TRUE]

\* ModelSerializer.update for UserProfile: plain setattr of every key present.
UserUpdate(row, data) ==
    [username |-> data.username, email |-> data.email,
     password |-> [hashed |-> FALSE, text |-> data.password],
     role |-> Get(data, "role", row.role),
     is_active |-> IF Has(data, "is_active") THEN ParseBool(data.is_active)
                   ELSE row.is_active]

\* ------------------------------------------------------- permission checks
\* Mutant: any authenticated user passes the supervisor check.
IsSupervisor_AnyAuthenticated(actor) == actor \in DOMAIN users
IsSupervisor(actor) == users[actor].role = SUPERVISOR
IsIntern(actor) == users[actor].role = INTERN

\* Mutants: the owner is not let in; everybody is let in.
MayUpdateTask_SupervisorOnly(actor, pk) == users[actor].role = SUPERVISOR
MayUpdateTask_Anyone(actor, pk) == TRUE
\* TaskView.put: the supervisor or the assigned intern.
MayUpdateTask(actor, pk) == IsSupervisor(actor) \/ tasks[pk].assigned_to = actor

\* Mutant: everybody is let in.
MayUpdateAttendance_Anyone(actor, pk) == TRUE
\* AttendanceView.put: the supervisor or the record's user.
MayUpdateAttendance(actor, pk) == IsSupervisor(actor) \/ attendances[pk].user = actor

\* --------------------------------------------------------------- responses
Error(status, text) == Response(status, "error", [error |-> text])
Forbidden(text) == Error(HTTP_401_UNAUTHORIZED, text)
NotFound(text) == Error(HTTP_404_NOT_FOUND, text)
BadRequest == Response(HTTP_400_BAD_REQUEST, "errors", NoData)
ServerError == Response(HTTP_500_INTERNAL_SERVER_ERROR, "exception", NoData)
Message(status, text) == Response(status, "message", [message |-> text])

\* The request q is answered r.
Answer(q, r) == req' = q /\ resp' = r /\ UNCHANGED jobs

\* A handler that answers without writing.
Reply(q, r) == Answer(q, r) /\ UNCHANGED <<store, counters, auth>>

\* --------------------------------------------------- on_delete of the models
\* Collector for UserProfile.delete(): Task.assigned_to, Attendance.user and
\* Token.user are CASCADE, Task.assigned_by is SET_NULL.
\* Mutant: assigned_by declared CASCADE like assigned_to.
CascadeTasks_BothCascade(pk) ==
    [t \in {i \in DOMAIN tasks : tasks[i].assigned_to # pk /\ tasks[i].assigned_by # pk}
        |-> tasks[t]]
CascadeTasks(pk) ==
    [t \in {i \in DOMAIN tasks : tasks[i].assigned_to # pk} |->
        IF tasks[t].assigned_by = pk THEN [tasks[t] EXCEPT !.assigned_by = NULL]
        ELSE tasks[t]]

CascadeAttendances(pk) ==
    Drop(attendances, {i \in DOMAIN attendances : attendances[i].user = pk})

CascadeTokens(pk) == Drop(tokens, {pk})

\* =========================================================== UserProfileView
UserGet(actor, pk) ==
    LET q == Request("UserGet", actor, pk, NoData)
    IN IF pk # 0
       THEN IF pk \notin DOMAIN users
            THEN Reply(q, NotFound("UserProfile not found."))
            ELSE Reply(q, Response(HTTP_200_OK, "user", UserRepr(pk)))
       ELSE Reply(q, Response(HTTP_200_OK, "users", {UserRepr(u) : u \in DOMAIN users}))

UserPost(actor, data) ==
    LET q == Request("UserPost", actor, NULL, data)
    IN IF ~IsSupervisor(actor)
       THEN Reply(q, Forbidden("Only supervisors can create profiles."))
       ELSE IF ~UserIsValid(data, NULL) THEN Reply(q, BadRequest)
       ELSE IF CreateRaises(data) THEN Reply(q, ServerError)
       ELSE /\ nextUserId <= MaxUserId
            /\ users' = Put(users, nextUserId, UserCreate(data))
            /\ nextUserId' = nextUserId + 1
            /\ Answer(q, Response(HTTP_201_CREATED, "user",
                                  UserData(nextUserId, UserCreate(data))))
            /\ UNCHANGED <<tasks, attendances, nextTaskId, nextAttId, auth>>

UserPut(actor, pk, data) ==
    LET q == Request("UserPut", actor, pk, data)
    IN IF pk \notin DOMAIN users THEN Reply(q, NotFound("UserProfile not found."))
       ELSE IF ~IsSupervisor(actor)
       THEN Reply(q, Forbidden("Only supervisors can update profiles."))
       ELSE IF ~UserIsValid(data, pk) THEN Reply(q, BadRequest)
       ELSE /\ users' = Put(users, pk, UserUpdate(users[pk], data))
            /\ Answer(q, Response(HTTP_200_OK, "user",
                                  UserData(pk, UserUpdate(users[pk], data))))
            /\ UNCHANGED <<tasks, attendances, counters, auth>>

\* Mutant: the role is checked before the profile is looked up.
UserDelete_RoleFirst(actor, pk) ==
    LET q == Request("UserDelete", actor, pk, NoData)
    IN IF ~IsSupervisor(actor)
       THEN Reply(q, Forbidden("Only supervisors can delete profiles."))
       ELSE IF pk \notin DOMAIN users THEN Reply(q, NotFound("UserProfile not found."))
       ELSE /\ users' = Drop(users, {pk})
            /\ tasks' = CascadeTasks(pk)
            /\ attendances' = CascadeAttendances(pk)
            /\ tokens' = CascadeTokens(pk)
            /\ Answer(q, Message(HTTP_200_OK, "UserProfile deleted."))
            /\ UNCHANGED <<counters, sessions, nextKey>>
\* UserProfileView.delete
UserDelete(actor, pk) ==
    LET q == Request("UserDelete", actor, pk, NoData)
    IN IF pk \notin DOMAIN users THEN Reply(q, NotFound("UserProfile not found."))
       ELSE IF ~IsSupervisor(actor)
       THEN Reply(q, Forbidden("Only supervisors can delete profiles."))
       ELSE /\ users' = Drop(users, {pk})
            /\ tasks' = CascadeTasks(pk)
            /\ attendances' = CascadeAttendances(pk)
            /\ tokens' = CascadeTokens(pk)
            /\ Answer(q, Message(HTTP_200_OK, "UserProfile deleted."))
            /\ UNCHANGED <<counters, sessions, nextKey>>

\* ================================================================== TaskView
TaskGet(actor, pk) ==
    LET q == Request("TaskGet", actor, pk, NoData)
    IN IF pk # 0
       THEN IF pk \notin DOMAIN tasks
            THEN Reply(q, NotFound("Task not found."))
            ELSE Reply(q, Response(HTTP_200_OK, "task", TaskRepr(pk)))
       ELSE Reply(q, Response(HTTP_200_OK, "tasks", {TaskRepr(t) : t \in DOMAIN tasks}))

\* serializer.save() of a new Task, then Response(serializer.data, 201);
\* shared by TaskView.post and AssignTaskView.post.
SaveNewTask(q, data) ==
    /\ nextTaskId <= MaxTaskId
    /\ tasks' = Put(tasks, nextTaskId, TaskCreate(data))
    /\ nextTaskId' = nextTaskId + 1
    /\ Answer(q, Response(HTTP_201_CREATED, "task", TaskData(nextTaskId, TaskCreate(data))))
    /\ UNCHANGED <<users, attendances, nextUserId, nextAttId, auth>>

TaskPost(actor, data) ==
    LET q == Request("TaskPost", actor, NULL, data)
    IN IF ~IsSupervisor(actor)
       THEN Reply(q, Forbidden("Only supervisors can create tasks."))
       ELSE IF ~TaskIsValid(data, FALSE) THEN Reply(q, BadRequest)
       ELSE SaveNewTask(q, data)

TaskPut(actor, pk, data) ==
    LET q == Request("TaskPut", actor, pk, data)
    IN IF pk \notin DOMAIN tasks THEN Reply(q, NotFound("Task not found."))
       ELSE IF ~MayUpdateTask(actor, pk)
       THEN Reply(q, Forbidden("Only supervisors or the assigned intern can update tasks."))
       ELSE IF ~TaskIsValid(data, FALSE) THEN Reply(q, BadRequest)
       ELSE /\ tasks' = Put(tasks, pk, TaskUpdate(tasks[pk], data))
            /\ Answer(q, Response(HTTP_200_OK, "task",
                                  TaskData(pk, TaskUpdate(tasks[pk], data))))
            /\ UNCHANGED <<users, attendances, counters, auth>>

TaskDelete(actor, pk) ==
    LET q == Request("TaskDelete", actor, pk, NoData)
    IN IF pk \notin DOMAIN tasks THEN Reply(q, NotFound("Task not found."))
       ELSE IF ~IsSupervisor(actor)
       THEN Reply(q, Forbidden("Only supervisors can delete tasks."))
       ELSE /\ tasks' = Drop(tasks, {pk})
            /\ Answer(q, Message(HTTP_200_OK, "Task deleted."))
            /\ UNCHANGED <<users, attendances, counters, auth>>

\* ============================================================ AttendanceView
AttendanceGet(actor, pk) ==
    LET q == Request("AttendanceGet", actor, pk, NoData)
    IN IF pk # 0
       THEN IF pk \notin DOMAIN attendances
            THEN Reply(q, NotFound("Attendance record not found."))
            ELSE Reply(q, Response(HTTP_200_OK, "attendance", AttendanceRepr(pk)))
       ELSE Reply(q, Response(HTTP_200_OK, "attendances",
                              {AttendanceRepr(a) : a \in DOMAIN attendances}))

\* serializer.save() of a new Attendance, then Response(serializer.data, 201);
\* shared by AttendanceView.post and MarkAttendanceView.post.
SaveNewAttendance(q, data) ==
    /\ nextAttId <= MaxAttId
    /\ attendances' = Put(attendances, nextAttId, AttendanceCreate(data))
    /\ nextAttId' = nextAttId + 1
    /\ Answer(q, Response(HTTP_201_CREATED, "attendance",
                          AttendanceData(nextAttId, AttendanceCreate(data))))
    /\ UNCHANGED <<users, tasks, nextUserId, nextTaskId, auth>>

AttendancePost(actor, data) ==
    LET q == Request("AttendancePost", actor, NULL, data)
    IN IF ~IsSupervisor(actor)
       THEN Reply(q, Forbidden("Only supervisors can create attendance records."))
       ELSE IF ~AttendanceIsValid(data) THEN Reply(q, BadRequest)
       ELSE SaveNewAttendance(q, data)

AttendancePut(actor, pk, data) ==
    LET q == Request("AttendancePut", actor, pk, data)
    IN IF pk \notin DOMAIN attendances
       THEN Reply(q, NotFound("Attendance record not found."))
       ELSE IF ~MayUpdateAttendance(actor, pk)
       THEN Reply(q, Forbidden("Only supervisors or the user can update attendance."))
       ELSE IF ~AttendanceIsValid(data) THEN Reply(q, BadRequest)
       ELSE /\ attendances' = Put(attendances, pk, AttendanceUpdate(attendances[pk], data))
            /\ Answer(q, Response(HTTP_200_OK, "attendance",
                                  AttendanceData(pk, AttendanceUpdate(attendances[pk], data))))
            /\ UNCHANGED <<users, tasks, counters, auth>>

AttendanceDelete(actor, pk) ==
    LET q == Request("AttendanceDelete", actor, pk, NoData)
    IN IF pk \notin DOMAIN attendances
       THEN Reply(q, NotFound("Attendance record not found."))
       ELSE IF ~IsSupervisor(actor)
       THEN Reply(q, Forbidden("Only supervisors can delete attendance records."))
       ELSE /\ attendances' = Drop(attendances, {pk})
            /\ Answer(q, Message(HTTP_200_OK, "Attendance record deleted."))
            /\ UNCHANGED <<users, tasks, counters, auth>>

\* ================================================================== AuthView
\* django.contrib.auth.authenticate with ModelBackend: the user of that
\* username, if the password checks and the user is active; else Anonymous.
authenticate(username, password) ==
    LET found == {u \in DOMAIN users :
                    /\ users[u].username = username
                    /\ check_password(password, users[u].password)
                    /\ users[u].is_active}
    IN IF found = {} THEN Anonymous ELSE CHOOSE u \in found : TRUE

Credential(data, k) == Get(data, k, "")

\* Mutant: a fresh key at every sign-in.
TokenGetOrCreate_Rotates(user) ==
    tokens' = Put(tokens, user, nextKey) /\ nextKey' = nextKey + 1
\* Token.objects.get_or_create(user=user)
TokenGetOrCreate(user) ==
    IF user \in DOMAIN tokens
    THEN UNCHANGED <<tokens, nextKey>>
    ELSE tokens' = Put(tokens, user, nextKey) /\ nextKey' = nextKey + 1

SignIn(data) ==
    LET q == Request("SignIn", Anonymous, NULL, data)
        user == authenticate(Credential(data, "username"), Credential(data, "password"))
    IN IF user # Anonymous
       THEN /\ sessions' = sessions \cup {user}
            /\ TokenGetOrCreate(user)
            /\ Answer(q, Response(HTTP_200_OK, "token",
                                  [message |-> "Sign-in successful.", token |-> tokens'[user]]))
            /\ UNCHANGED <<store, counters>>
       ELSE Reply(q, Message(HTTP_401_UNAUTHORIZED, "Invalid credentials."))

SignOut(actor) ==
    LET q == Request("SignOut", actor, NULL, NoData)
    IN IF actor = Anonymous
       THEN Reply(q, Message(HTTP_401_UNAUTHORIZED, "No user signed in."))
       ELSE /\ sessions' = sessions \ {actor}
            /\ Answer(q, Message(HTTP_200_OK, "Sign-out successful."))
            /\ UNCHANGED <<store, counters, tokens, nextKey>>

\* rest_framework.authtoken.views.obtain_auth_token, routed at api-token-auth/
ObtainAuthToken(data) ==
    LET q == Request("ObtainAuthToken", Anonymous, NULL, data)
        user == authenticate(Credential(data, "username"), Credential(data, "password"))
    IN IF user = Anonymous THEN Reply(q, BadRequest)
       ELSE /\ TokenGetOrCreate(user)
            /\ Answer(q, Response(HTTP_200_OK, "token", [token |-> tokens'[user]]))
            /\ UNCHANGED <<store, counters, sessions>>

\* ======================================================== MarkAttendanceView
\* Mutant: the payload's user is kept when it carries one.
MarkAttendanceData_TrustsPayload(actor, data) ==
    [user |-> Get(data, "user", actor), status |-> Get(data, "status", "P")]
\* data = {'user': request.user.id, 'status': request.data.get('status', 'P')}
MarkAttendanceData(actor, data) == [user |-> actor, status |-> Get(data, "status", "P")]

MarkAttendance(actor, data) ==
    LET q == Request("MarkAttendance", actor, NULL, data)
    IN IF ~IsIntern(actor) THEN Reply(q, Forbidden("Only interns can mark attendance."))
       ELSE IF ~AttendanceIsValid(MarkAttendanceData(actor, data)) THEN Reply(q, BadRequest)
       ELSE SaveNewAttendance(q, MarkAttendanceData(actor, data))

\* ====================================================== MarkTaskCompleteView
\* Mutant: the lookup forgets the assigned_to filter.
OwnTask_ByIdOnly(actor, pk) == pk \in DOMAIN tasks
\* Task.objects.get(pk=pk, assigned_to=request.user)
OwnTask(actor, pk) == pk \in DOMAIN tasks /\ tasks[pk].assigned_to = actor

CompleteData == [is_completed |-> "true"]

MarkTaskComplete(actor, pk) ==
    LET q == Request("MarkTaskComplete", actor, pk, NoData)
    IN IF ~IsIntern(actor)
       THEN Reply(q, Forbidden("Only interns can mark tasks as complete."))
       ELSE IF ~OwnTask(actor, pk)
       THEN Reply(q, NotFound("Task not found or not assigned to you."))
       ELSE IF ~TaskIsValid(CompleteData, TRUE) THEN Reply(q, BadRequest)
       ELSE /\ tasks' = Put(tasks, pk, TaskUpdate(tasks[pk], CompleteData))
            /\ Answer(q, Message(HTTP_200_OK, "Task marked as complete."))
            /\ UNCHANGED <<users, attendances, counters, auth>>

\* ============================================================ AssignTaskView
\* Mutant: setdefault instead of assignment.
AssignTaskData_SetDefault(actor, data) ==
    [k \in DOMAIN data \cup {"assigned_by"} |->
        IF k \in DOMAIN data THEN data[k] ELSE actor]
\* data = request.data.copy(); data['assigned_by'] = request.user.id
AssignTaskData(actor, data) ==
    [k \in DOMAIN data \cup {"assigned_by"} |->
        IF k = "assigned_by" THEN actor ELSE data[k]]

AssignTask(actor, data) ==
    LET q == Request("AssignTask", actor, NULL, data)
    IN IF ~IsSupervisor(actor) THEN Reply(q, Forbidden("Only supervisors can assign tasks."))
       ELSE IF ~TaskIsValid(AssignTaskData(actor, data), FALSE) THEN Reply(q, BadRequest)
       ELSE SaveNewTask(q, AssignTaskData(actor, data))

\* ============================================================ myapp/tasks.py
\* The two Celery tasks.  jobs[name] is the latest run of the task: its
\* status, the date it ran on, the users its queryset returned and has not
\* visited yet (queue), and the users send_mail was called for and returned,
\* in order (sent).
JobNames == {"birthday", "morning"}
NoRun == [status |-> "idle", today |-> NoDate, queue |-> {}, sent |-> <<>>]
Run(status, today, queue, sent) ==
    [status |-> status, today |-> today, queue |-> queue, sent |-> sent]

\* `for user in <queryset>`: the task returns when no user is left.
Loop(today, queue, sent) ==
    Run(IF queue = {} THEN "done" ELSE "running", today, queue, sent)

\* A run may start when the previous run of the same task is over.
Over(name) == jobs[name].status # "running"

\* The names a lookup on UserProfile resolves: the fields UserProfile declares
\* and inherits from AbstractUser, and the related_name of every foreign key
\* that points at it.  birth_date is a field of Task.
UserProfileFields ==
    {"id", "password", "last_login", "is_superuser", "username", "first_name",
     "last_name", "email", "is_staff", "is_active", "date_joined", "groups",
     "user_permissions", "role",
     "assigned_tasks", "assigned_by_tasks", "attendances", "auth_token"}

\* QuerySet.filter raises FieldError for a keyword it cannot resolve.
FilterRaises(field) == field \notin UserProfileFields

\* filter(birth_date__day=today.day, birth_date__month=today.month, is_active=True)
BirthdayQuery(today) ==
    {u \in DOMAIN users :
        /\ users[u].birth_date.d = today.d
        /\ users[u].birth_date.m = today.m
        /\ users[u].is_active}

\* send_happy_birthday_emails up to the loop: the filter call raises, or the
\* loop starts over the users it returned.
BirthdayStart(today) ==
    /\ Over("birthday")
    /\ jobs' = [jobs EXCEPT !["birthday"] =
                  IF FilterRaises("birth_date")
                  THEN Run("FieldError", today, {}, <<>>)
                  ELSE Loop(today, BirthdayQuery(today), <<>>)]
    /\ UNCHANGED <<store, counters, auth, req, resp>>

\* UserProfile.objects.filter(is_active=True)
MorningQuery == {u \in DOMAIN users : users[u].is_active}

\* send_good_morning_emails up to the loop.
MorningStart ==
    /\ Over("morning")
    /\ jobs' = [jobs EXCEPT !["morning"] = Loop(NoDate, MorningQuery, <<>>)]
    /\ UNCHANGED <<store, counters, auth, req, resp>>

\* What the loop does when send_mail raises (fail_silently=False): the
\* exception leaves the task, the users not yet visited stay unvisited.
\* Mutant: the exception is caught and the loop goes on with the next user.
SendFailed_Caught(run, user) == Loop(run.today, run.queue \ {user}, run.sent)
SendFailed(run, user) == [run EXCEPT !.status = "failed"]

\* One iteration of `for user in users` where send_mail returns.  The
\* queryset has no order_by: the next user is any of those left.  After the
\* last user the task returns.
JobSend(name) ==
    /\ jobs[name].status = "running"
    /\ \E user \in jobs[name].queue :
          jobs' = [jobs EXCEPT ![name] =
                     Loop(@.today, @.queue \ {user}, Append(@.sent, user))]
    /\ UNCHANGED <<store, counters, auth, req, resp>>

\* One iteration where send_mail (or config('EMAIL_HOST_USER')) raises.
JobSendFails(name) ==
    /\ jobs[name].status = "running"
    /\ \E user \in jobs[name].queue :
          jobs' = [jobs EXCEPT ![name] = SendFailed(@, user)]
    /\ UNCHANGED <<store, counters, auth, req, resp>>

\* ------------------------------------------------------ inputs of the checks
Usernames == {"ann", "bob", "cy"}
LongUsername == "abcdefghijklmnopqrstu"
Other == [other |-> "x"]     \* a payload with none of the keys above

UserPayloads ==
    {[username |-> "cy", email |-> "cy@x", password |-> "pw", role |-> r] :
        r \in {INTERN, "Boss"}}
    \cup {[username |-> "cy", email |-> "ann@x", password |-> "pw", role |-> INTERN],
          [username |-> "cy", email |-> "cy@x", password |-> "pw"],
          [username |-> "cy", password |-> "pw", role |-> INTERN],
          [username |-> "cy", email |-> "cy@x", role |-> INTERN],
          [username |-> LongUsername, email |-> "cy@x", password |-> "pw", role |-> INTERN]}

\* Create payloads of the other two entities: one valid, one not.
CreateTaskPayloads == {[title |-> "t1", assigned_to |-> 2], [assigned_to |-> 2]}
CreateAttendancePayloads == {[user |-> 2], [user |-> 2, status |-> "X"]}
CreateMarkPayloads == {Other}

Credentials ==
    {[username |-> n, password |-> "pw"] : n \in Usernames}
    \cup {[username |-> "bob", password |-> "bad"], [username |-> "ann"]}

TaskPayloads ==
    {[title |-> t] : t \in {"t1", "t2"}}
    \cup {[title |-> "t1", assigned_to |-> u] : u \in NULL..MaxUserId}
    \cup {[title |-> "t1", assigned_to |-> 2, assigned_by |-> v] : v \in NULL..MaxUserId}
    \cup {[title |-> "t1", is_completed |-> c] : c \in {"true", "false", "maybe"}}
    \cup {[is_completed |-> "true"]}

AttendancePayloads ==
    {[user |-> u] : u \in 1..MaxUserId}
    \cup {[user |-> 2, status |-> s] : s \in StatusChoices \cup {"X"}}
    \cup {[status |-> "P"]}

MarkPayloads ==
    {[status |-> s] : s \in StatusChoices \cup {"X"}}
    \cup {Other, [user |-> 1], [user |-> 1, status |-> "L"]}

\* The smaller input sets of the specification that runs every handler.
BasicUserPayloads ==
    {[username |-> "cy", email |-> "cy@x", password |-> "pw", role |-> INTERN],
     [username |-> "cy", email |-> "cy@x", password |-> "pw", role |-> SUPERVISOR,
      is_active |-> "false"]}

BasicTaskPayloads ==
    {[title |-> "t1", assigned_to |-> 2],
     [title |-> "t2", assigned_to |-> 3, assigned_by |-> 2],
     [title |-> "t1", is_completed |-> "false"]}

BasicAttendancePayloads == {[user |-> 2], [user |-> 1, status |-> "L"]}

BasicMarkPayloads == {Other, [user |-> 1, status |-> "L"]}

\* The inputs of the specification of the mail jobs.
Dates == {[y |-> 1, m |-> 1, d |-> 1], [y |-> 1, m |-> 2, d |-> 1]}
Todays == {[y |-> 2, m |-> 1, d |-> 1]}
JobUserPayloads ==
    {[username |-> "cy", email |-> "cy@x", password |-> "pw", role |-> SUPERVISOR,
      is_active |-> "false"]}
JobTaskPayloads == {[title |-> "t1", assigned_to |-> 2, birth_date |-> d] : d \in Dates}

\* -------------------------------------------------------------------- Init
\* Two seeded accounts, a supervisor and an intern; every other table empty.
Init ==
    /\ users = (1 :> [username |-> "ann", email |-> "ann@x", password |-> make_password("pw"),
                      role |-> SUPERVISOR, is_active |-> TRUE])
            @@ (2 :> [username |-> "bob", email |-> "bob@x", password |-> make_password("pw"),
                      role |-> INTERN, is_active |-> TRUE])
    /\ tasks = <<>>
    /\ attendances = <<>>
    /\ tokens = <<>>
    /\ sessions = {}
    /\ nextUserId = 3
    /\ nextTaskId = 1
    /\ nextAttId = 1
    /\ nextKey = 1
    /\ req = Request("none", Anonymous, NULL, NoData)
    /\ resp = Message(HTTP_200_OK, "ready")
    /\ jobs = [name \in JobNames |-> NoRun]

\* -------------------------------------------------------------------- Next
UserOps(payloads) ==
    \E actor \in Actors :
        \/ \E pk \in 0..MaxUserId : UserGet(actor, pk)
        \/ \E data \in payloads : UserPost(actor, data)
        \/ \E pk \in 1..MaxUserId, data \in payloads : UserPut(actor, pk, data)
        \/ \E pk \in 1..MaxUserId : UserDelete(actor, pk)

TaskOps(payloads) ==
    \E actor \in Actors :
        \/ \E pk \in 0..MaxTaskId : TaskGet(actor, pk)
        \/ \E data \in payloads : TaskPost(actor, data)
        \/ \E pk \in 1..MaxTaskId, data \in payloads : TaskPut(actor, pk, data)
        \/ \E pk \in 1..MaxTaskId : TaskDelete(actor, pk)
        \/ \E pk \in 1..MaxTaskId : MarkTaskComplete(actor, pk)
        \/ \E data \in payloads : AssignTask(actor, data)

AttendanceOps(payloads, marks) ==
    \E actor \in Actors :
        \/ \E pk \in 0..MaxAttId : AttendanceGet(actor, pk)
        \/ \E data \in payloads : AttendancePost(actor, data)
        \/ \E pk \in 1..MaxAttId, data \in payloads : AttendancePut(actor, pk, data)
        \/ \E pk \in 1..MaxAttId : AttendanceDelete(actor, pk)
        \/ \E data \in marks : MarkAttendance(actor, data)

AuthOps ==
    \/ \E data \in Credentials : SignIn(data)
    \/ \E data \in Credentials : ObtainAuthToken(data)
    \/ \E actor \in Actors \cup {Anonymous} : SignOut(actor)

Next ==
    \/ UserOps(BasicUserPayloads)
    \/ TaskOps(BasicTaskPayloads)
    \/ AttendanceOps(BasicAttendancePayloads, BasicMarkPayloads)

Spec == Init /\ [][Next]_vars

\* The task endpoints over the larger payload set.
NextTasks == TaskOps(TaskPayloads) \/ UserOps(BasicUserPayloads)
SpecTasks == Init /\ [][NextTasks]_vars

\* The attendance endpoints over the larger payload sets.
NextAttendance ==
    AttendanceOps(AttendancePayloads, MarkPayloads) \/ UserOps(BasicUserPayloads)
SpecAttendance == Init /\ [][NextAttendance]_vars

\* Sign-in, sign-out and the token endpoint, with the profile endpoints.
NextAuth == AuthOps \/ UserOps(BasicUserPayloads)
SpecAuth == Init /\ [][NextAuth]_vars



\* Generic Create of the three entities over the larger user payload set.
NextCreate ==
    \/ UserOps(UserPayloads)
    \/ TaskOps(CreateTaskPayloads)
    \/ AttendanceOps(CreateAttendancePayloads, CreateMarkPayloads)
SpecCreate == Init /\ [][NextCreate]_vars

\* Celery beat starts each task once a day; the worker runs it while the
\* views serve requests.
JobOps ==
    \/ \E today \in Todays : BirthdayStart(today)
    \/ MorningStart
    \/ \E name \in JobNames : JobSend(name)
    \/ \E name \in JobNames : JobSendFails(name)

NextJobs == JobOps \/ UserOps(JobUserPayloads) \/ TaskOps(JobTaskPayloads)
SpecJobs == Init /\ [][NextJobs]_vars

\* ================================================================== claims
\* The caller of the request just handled, as a stored user before the step.
Called(ops) == req'.op \in ops /\ req'.actor \in DOMAIN users
CallerRole == users[req'.actor].role

\* The request was refused as unauthorized and wrote no record.
Denied == resp'.status = HTTP_401_UNAUTHORIZED /\ UNCHANGED <<users, tasks, attendances>>

\* C1: generic Create (any entity), generic Delete of an existing record (any
\* entity) and generic Update of an existing User, called by an actor whose
\* role is not Supervisor, answer 401 and leave the stored Users, Tasks and
\* Attendance records as they were, whatever the payload.
C1_NonSupervisorWritesForbidden ==
    [][/\ (Called({"UserPost", "TaskPost", "AttendancePost"}) /\ CallerRole # SUPERVISOR)
            => Denied
       /\ (/\ Called({"UserPut", "UserDelete"})
           /\ req'.pk \in DOMAIN users
           /\ CallerRole # SUPERVISOR) => Denied
       /\ (Called({"TaskDelete"}) /\ req'.pk \in DOMAIN tasks /\ CallerRole # SUPERVISOR)
            => Denied
       /\ (/\ Called({"AttendanceDelete"})
           /\ req'.pk \in DOMAIN attendances
           /\ CallerRole # SUPERVISOR) => Denied
      ]_vars

\* C1 witness: an intern asked to delete an existing task and got 401.
C1_Witness ==
    /\ req.op = "TaskDelete"
    /\ req.pk \in DOMAIN tasks
    /\ req.actor \in DOMAIN users
    /\ users[req.actor].role = INTERN
    /\ resp.status = HTTP_401_UNAUTHORIZED

\* C2: generic Update of an existing Task or Attendance record with a valid
\* payload answers 200 exactly when the actor is a Supervisor or the record's
\* owner (assigned_to, user); otherwise it answers 401 and changes no record.
C2_UpdateIffSupervisorOrOwner ==
    [][/\ (/\ Called({"TaskPut"})
           /\ req'.pk \in DOMAIN tasks
           /\ TaskIsValid(req'.data, FALSE))
            => IF CallerRole = SUPERVISOR \/ tasks[req'.pk].assigned_to = req'.actor
               THEN resp'.status = HTTP_200_OK
               ELSE Denied
       /\ (/\ Called({"AttendancePut"})
           /\ req'.pk \in DOMAIN attendances
           /\ AttendanceIsValid(req'.data))
            => IF CallerRole = SUPERVISOR \/ attendances[req'.pk].user = req'.actor
               THEN resp'.status = HTTP_200_OK
               ELSE Denied
      ]_vars

\* C2 witness: an intern's update of an attendance record succeeded.
C2_Witness ==
    /\ req.op = "AttendancePut"
    /\ req.actor \in DOMAIN users
    /\ users[req.actor].role = INTERN
    /\ resp.status = HTTP_200_OK


NotAssignedToCaller == ~(req'.pk \in DOMAIN tasks /\ tasks[req'.pk].assigned_to = req'.actor)
Masked == resp' = NotFound("Task not found or not assigned to you.")

\* C3 as claimed: CompleteTask on a task not assigned to the caller answers
\* NotFound, never Forbidden, for a caller of either role, and writes nothing.
C3_AsClaimed ==
    [][(Called({"MarkTaskComplete"}) /\ NotAssignedToCaller)
            => (Masked /\ UNCHANGED tasks)]_vars

\* C3 amended: for a caller whose role is Intern, CompleteTask on a task not
\* assigned to the caller answers the same NotFound whether or not the task
\* exists, and writes nothing; a caller of any other role is answered 401
\* for every task id, and nothing is written.
C3_InternMasked ==
    [][Called({"MarkTaskComplete"}) =>
          /\ (CallerRole = INTERN /\ NotAssignedToCaller)
                => (Masked /\ UNCHANGED <<users, tasks, attendances>>)
          /\ CallerRole # INTERN => Denied
      ]_vars

\* C3 witness: an intern got NotFound for a task that exists.
C3_Witness ==
    /\ req.op = "MarkTaskComplete"
    /\ req.pk \in DOMAIN tasks
    /\ req.actor \in DOMAIN users
    /\ users[req.actor].role = INTERN
    /\ resp.status = HTTP_404_NOT_FOUND

NewAttendances == DOMAIN attendances' \ DOMAIN attendances
NewTasks == DOMAIN tasks' \ DOMAIN tasks

\* C4: every Attendance record MarkAttendance creates has user = the calling
\* Intern, whatever user the payload carries, and status = the payload's
\* status if it has one, else "P"; a caller who is not an Intern creates none.
C4_MarkAttendanceForcesCaller ==
    [][Called({"MarkAttendance"}) =>
          /\ \A a \in NewAttendances :
                /\ CallerRole = INTERN
                /\ attendances'[a].user = req'.actor
                /\ attendances'[a].status =
                      IF "status" \in DOMAIN req'.data THEN req'.data.status ELSE "P"
          /\ CallerRole # INTERN => attendances' = attendances
      ]_vars

\* C4 witness: a record was created from a payload naming another user.
C4_Witness ==
    /\ req.op = "MarkAttendance"
    /\ resp.status = HTTP_201_CREATED
    /\ "user" \in DOMAIN req.data
    /\ req.data.user # req.actor
    /\ "status" \notin DOMAIN req.data

\* C5: every Task AssignTask creates has assigned_by = the calling Supervisor,
\* whatever assigned_by the payload carries, and the response carries that
\* created Task; a caller who is not a Supervisor creates none.
C5_AssignTaskForcesCaller ==
    [][Called({"AssignTask"}) =>
          /\ \A t \in NewTasks :
                /\ CallerRole = SUPERVISOR
                /\ tasks'[t].assigned_by = req'.actor
                /\ resp'.status = HTTP_201_CREATED
                /\ resp'.body = TaskData(t, tasks'[t])
          /\ resp'.status = HTTP_201_CREATED => NewTasks # {}
          /\ CallerRole # SUPERVISOR => tasks' = tasks
      ]_vars

\* C5 witness: a task was created from a payload naming another assigner.
C5_Witness ==
    /\ req.op = "AssignTask"
    /\ resp.status = HTTP_201_CREATED
    /\ "assigned_by" \in DOMAIN req.data
    /\ req.data.assigned_by # req.actor


\* Every user reference of a Task or Attendance record is empty or resolves.
ReferencesResolve ==
    /\ \A t \in DOMAIN tasks :
          /\ tasks[t].assigned_to \in {NULL} \cup DOMAIN users
          /\ tasks[t].assigned_by \in {NULL} \cup DOMAIN users
    /\ \A a \in DOMAIN attendances : attendances[a].user \in DOMAIN users

\* What deleting user u leaves of the records, stated from the claim.
AfterDeleting(u) ==
    /\ u \notin DOMAIN users'
    /\ \A v \in DOMAIN users \ {u} : v \in DOMAIN users' /\ users'[v] = users[v]
    /\ \A t \in DOMAIN tasks' : t \in DOMAIN tasks /\ tasks'[t].assigned_to # u
    /\ \A a \in DOMAIN attendances' : a \in DOMAIN attendances /\ attendances'[a].user # u
    /\ \A t \in DOMAIN tasks :
          tasks[t].assigned_to # u =>
             /\ t \in DOMAIN tasks'
             /\ tasks'[t] = IF tasks[t].assigned_by = u
                            THEN [tasks[t] EXCEPT !.assigned_by = NULL]
                            ELSE tasks[t]
    /\ \A a \in DOMAIN attendances :
          attendances[a].user # u =>
             a \in DOMAIN attendances' /\ attendances'[a] = attendances[a]

\* C6: after a Supervisor deletes User U no Task with assigned_to = U and no
\* Attendance record with user = U is left, every Task with assigned_by = U
\* and assigned_to # U is kept with assigned_by cleared and nothing else
\* changed, every record that did not reference U is unchanged; and in every
\* reachable state every user reference is empty or points to a stored User.
C6_DeleteCascades ==
    /\ []ReferencesResolve
    /\ [][(Called({"UserDelete"}) /\ resp'.status = HTTP_200_OK)
             => (CallerRole = SUPERVISOR /\ AfterDeleting(req'.pk))]_vars

\* C6 witness: user 2 was deleted and a task that named 2 as its assigner
\* is still stored, with the assigner cleared.
C6_Witness ==
    /\ req.op = "UserDelete"
    /\ req.pk = 2
    /\ resp.status = HTTP_200_OK
    /\ \E t \in DOMAIN tasks :
          /\ tasks[t].title = "t2"
          /\ tasks[t].assigned_to = 3
          /\ tasks[t].assigned_by = NULL

\* The user a sign-in with these credentials is for, from the claim: the
\* active user of that username whose password matches; else Anonymous.
ValidFor(data) ==
    {u \in DOMAIN users :
        /\ "username" \in DOMAIN data /\ "password" \in DOMAIN data
        /\ users[u].username = data.username
        /\ users[u].password = [hashed |-> TRUE, text |-> data.password]
        /\ users[u].is_active}

\* C7: while a user exists its token, once created, is never replaced or
\* removed, by sign-in or by sign-out; every successful sign-in of the user
\* returns that token; a sign-in with invalid credentials answers 401 without
\* a token and creates none.
C7_TokenStable ==
    [][/\ \A u \in DOMAIN tokens \cap DOMAIN users' :
             u \in DOMAIN tokens' /\ tokens'[u] = tokens[u]
       /\ req'.op \in {"SignIn", "SignOut"} =>
             \A u \in DOMAIN tokens : u \in DOMAIN tokens' /\ tokens'[u] = tokens[u]
       /\ req'.op = "SignIn" =>
             IF ValidFor(req'.data) # {}
             THEN /\ resp'.status = HTTP_200_OK
                  /\ \E u \in ValidFor(req'.data) :
                        /\ u \in DOMAIN tokens'
                        /\ resp'.body.token = tokens'[u]
                        /\ DOMAIN tokens' = DOMAIN tokens \cup {u}
             ELSE /\ resp'.status = HTTP_401_UNAUTHORIZED
                  /\ "token" \notin DOMAIN resp'.body
                  /\ tokens' = tokens
      ]_vars

\* C7 witness: a successful sign-in returned a token that was not created by
\* this request (a newer key has been handed out since), while the session of
\* this sign-in is the only one open.
C7_Witness ==
    /\ req.op = "SignIn"
    /\ resp.status = HTTP_200_OK
    /\ resp.body.token + 1 < nextKey
    /\ sessions = ValidFor(req.data)


\* What Retrieve(id) answers in this state: the body of the 200 of the Get
\* handlers.
RetrieveUser(id) == UserRepr(id)
RetrieveTask(id) == TaskRepr(id)
RetrieveAttendance(id) == AttendanceRepr(id)

\* C8 as claimed: right after an accepted Create, Retrieve of the returned id
\* gives every client-settable field the payload's value, and the defaults
\* for the fields the payload left out.
C8_RoundTrip ==
    /\ (req.op = "UserPost" /\ resp.status = HTTP_201_CREATED) =>
          LET got == RetrieveUser(resp.body.id)
          IN /\ got.username = req.data.username
             /\ got.role = Get(req.data, "role", INTERN)
             /\ got.is_active = IF "is_active" \in DOMAIN req.data
                                THEN req.data.is_active = "true" ELSE TRUE
    /\ (req.op = "TaskPost" /\ resp.status = HTTP_201_CREATED) =>
          LET got == RetrieveTask(resp.body.id)
          IN /\ got.title = req.data.title
             /\ got.is_completed = IF "is_completed" \in DOMAIN req.data
                                   THEN req.data.is_completed = "true" ELSE FALSE
             /\ got.assigned_to = Get(req.data, "assigned_to", NULL)
             /\ got.assigned_by = Get(req.data, "assigned_by", NULL)
    /\ (req.op = "AttendancePost" /\ resp.status = HTTP_201_CREATED) =>
          LET got == RetrieveAttendance(resp.body.id)
          IN /\ got.user = req.data.user
             /\ got.status = Get(req.data, "status", "A")

FlagChanged(t) ==
    t \in DOMAIN tasks /\ t \in DOMAIN tasks'
    /\ tasks'[t].is_completed # tasks[t].is_completed

CallerIsAssignee(t) == tasks[t].assigned_to = req'.actor

\* C9 as claimed: every change of an existing Task's completion flag goes
\* from false to true and is made by CompleteTask of the assignee or by an
\* update of a Supervisor.
C9_AsClaimed ==
    [][\A t \in 1..MaxTaskId :
          FlagChanged(t) =>
             /\ ~tasks[t].is_completed /\ tasks'[t].is_completed
             /\ req'.pk = t /\ req'.actor \in DOMAIN users
             /\ \/ req'.op = "MarkTaskComplete" /\ CallerIsAssignee(t)
                \/ req'.op = "TaskPut" /\ CallerRole = SUPERVISOR
      ]_vars

\* C9 amended: every change of an existing Task's completion flag is made
\* either by CompleteTask of the Intern the task is assigned to, which sets
\* it true, or by a generic Update of that task by a Supervisor or by the
\* user the task is assigned to, which sets it to the payload's
\* is_completed, true or false; no other operation or actor changes it.
C9_FlagChangedOnlyBy ==
    [][\A t \in 1..MaxTaskId :
          FlagChanged(t) =>
             /\ req'.pk = t /\ req'.actor \in DOMAIN users
             /\ \/ /\ req'.op = "MarkTaskComplete"
                   /\ CallerRole = INTERN /\ CallerIsAssignee(t)
                   /\ tasks'[t].is_completed
                \/ /\ req'.op = "TaskPut"
                   /\ CallerRole = SUPERVISOR \/ CallerIsAssignee(t)
                   /\ "is_completed" \in DOMAIN req'.data
                   /\ tasks'[t].is_completed = (req'.data.is_completed = "true")
      ]_vars

\* C9 witness: an intern's update carrying is_completed = false went through
\* and the task is stored as not completed.
C9_Witness ==
    /\ req.op = "TaskPut"
    /\ resp.status = HTTP_200_OK
    /\ req.actor \in DOMAIN users
    /\ users[req.actor].role = INTERN
    /\ "is_completed" \in DOMAIN req.data
    /\ req.data.is_completed = "false"
    /\ ~tasks[req.pk].is_completed

CallerIsIntern == req'.actor \in DOMAIN users /\ CallerRole = INTERN

\* C10 as claimed: a request of an Intern changes nothing but: a new
\* Attendance record whose user is that Intern, and the completion flag of a
\* Task assigned to that Intern.
C10_AsClaimed ==
    [][CallerIsIntern =>
          /\ users' = users
          /\ DOMAIN tasks' = DOMAIN tasks
          /\ \A t \in DOMAIN tasks :
                \/ tasks'[t] = tasks[t]
                \/ /\ CallerIsAssignee(t)
                   /\ tasks'[t] = [tasks[t] EXCEPT !.is_completed = TRUE]
          /\ \A a \in DOMAIN attendances :
                a \in DOMAIN attendances' /\ attendances'[a] = attendances[a]
          /\ \A a \in NewAttendances : attendances'[a].user = req'.actor
      ]_vars

\* C10 amended: a request of an Intern changes no stored User, creates and
\* deletes no Task and deletes no Attendance record; it changes a Task only
\* if the task is assigned to that Intern (CompleteTask sets its flag,
\* generic Update overwrites the fields of the payload, title, assigned_to
\* and assigned_by included), changes an Attendance record only if its user
\* is that Intern (generic Update, user and status included), and creates
\* only Attendance records whose user is that Intern.
C10_InternWritesOwnRecordsOnly ==
    [][CallerIsIntern =>
          /\ users' = users
          /\ DOMAIN tasks' = DOMAIN tasks
          /\ \A t \in DOMAIN tasks : tasks'[t] # tasks[t] => CallerIsAssignee(t)
          /\ \A a \in DOMAIN attendances :
                /\ a \in DOMAIN attendances'
                /\ attendances'[a] # attendances[a] => attendances[a].user = req'.actor
          /\ \A a \in NewAttendances :
                req'.op = "MarkAttendance" /\ attendances'[a].user = req'.actor
      ]_vars

\* C10 witness: an intern's update handed its own task to somebody else.
C10_Witness ==
    /\ req.op = "TaskPut"
    /\ resp.status = HTTP_200_OK
    /\ req.actor \in DOMAIN users
    /\ users[req.actor].role = INTERN
    /\ tasks[req.pk].assigned_to # req.actor


\* ------------------------------------------------------------ the mail jobs
\* The users a run has issued a message to.
Recipients(run) == {run.sent[i] : i \in 1..Len(run.sent)}
OncePerUser(run) == Cardinality(Recipients(run)) = Len(run.sent)

\* The dates of birth the store holds for user u.  UserProfile has no such
\* column; the only one is Task.birth_date ("User's date of birth"), kept on
\* the tasks assigned to the user.
BirthDatesOf(u) ==
    {tasks[t].birth_date :
        t \in {i \in DOMAIN tasks :
                 tasks[i].assigned_to = u /\ tasks[i].birth_date # NoDate}}
BirthdayOn(u, today) == \E b \in BirthDatesOf(u) : b.d = today.d /\ b.m = today.m

\* A run of the task ended in this step and no send of it failed.
EndedUnfailed(name) ==
    /\ jobs'[name] # jobs[name]
    /\ jobs'[name].status \in {"done", "FieldError"}

\* C11 as claimed: a run of the birthday job in which no send fails has
\* issued exactly one message to every active user whose date of birth has
\* the day and month of the run's date, and none to anybody else.
C11_AsClaimed ==
    [][EndedUnfailed("birthday") =>
          /\ OncePerUser(jobs'["birthday"])
          /\ Recipients(jobs'["birthday"]) =
                {u \in DOMAIN users :
                    users[u].is_active /\ BirthdayOn(u, jobs'["birthday"].today)}
      ]_vars


\* ----------------------------------------------------------- generic Create
\* The order generic Create classifies a request in: the caller's role, then
\* the payload's validity, then the record is persisted and returned.
Classified(valid, before, after) ==
    IF CallerRole # SUPERVISOR THEN Denied
    ELSE IF ~valid
    THEN resp'.status = HTTP_400_BAD_REQUEST /\ UNCHANGED <<users, tasks, attendances>>
    ELSE /\ resp'.status = HTTP_201_CREATED
         /\ DOMAIN after = DOMAIN before \cup {resp'.body.id}
         /\ resp'.body.id \notin DOMAIN before

\* C12 as claimed: generic Create answers 401 to a caller who is not a
\* Supervisor, valid payload or not; 400 to a Supervisor whose payload breaks
\* a field constraint, persisting nothing; and 201 with the new record to a
\* Supervisor whose payload passes validation, also when the payload leaves
\* out a field that has a default, such as a User's role.
C12_AsClaimed ==
    [][/\ Called({"UserPost"}) =>
             Classified(UserIsValid(req'.data, NULL), users, users')
       /\ Called({"TaskPost"}) =>
             Classified(TaskIsValid(req'.data, FALSE), tasks, tasks')
       /\ Called({"AttendancePost"}) =>
             Classified(AttendanceIsValid(req'.data), attendances, attendances')
      ]_vars


\* ------------------------------------------------------ the good-morning job
\* A step of the latest run of the good-morning job, from run a to run b.
Started(a, b) ==
    /\ a.status # "running"
    /\ b.sent = <<>>
    /\ b.queue = {u \in DOMAIN users : users[u].is_active}
    /\ b.status = IF b.queue = {} THEN "done" ELSE "running"
Sent(a, b) ==
    /\ a.status = "running"
    /\ \E u \in a.queue : b.sent = Append(a.sent, u) /\ b.queue = a.queue \ {u}
    /\ b.status = IF b.queue = {} THEN "done" ELSE "running"
Aborted(a, b) ==
    /\ a.status = "running"
    /\ b.status = "failed"
    /\ b.sent = a.sent /\ b.queue = a.queue /\ b.queue # {}

\* C13: a run of the good-morning job starts with the users active at that
\* moment to visit and nobody else; each step of it sends to one user not yet
\* visited, or fails and aborts the run with the sends made so far kept and
\* every user not yet sent to left without a message; a run that is over
\* changes no more (nothing is retried) until the next run starts from
\* scratch; nobody is sent to twice in a run and a run that returned has sent
\* to every user it started with.
C13_MorningRunAbortsOnFailure ==
    /\ [](/\ OncePerUser(jobs["morning"])
          /\ Recipients(jobs["morning"]) \cap jobs["morning"].queue = {}
          /\ jobs["morning"].status = "done" => jobs["morning"].queue = {})
    /\ [][jobs'["morning"] # jobs["morning"] =>
             \/ Started(jobs["morning"], jobs'["morning"])
             \/ Sent(jobs["morning"], jobs'["morning"])
             \/ Aborted(jobs["morning"], jobs'["morning"])
         ]_vars

\* C13 witness: a run was aborted by a failed send after one user had got the
\* message, with two users of the run left without one.
C13_Witness ==
    /\ jobs["morning"].status = "failed"
    /\ Len(jobs["morning"].sent) = 1
    /\ Cardinality(jobs["morning"].queue) = 2


\* ------------------------------------------- existence before authorization
\* The table a generic Update or Delete looks its id up in.
TableOf(op) ==
    IF op \in {"UserPut", "UserDelete"} THEN users
    ELSE IF op \in {"TaskPut", "TaskDelete"} THEN tasks
    ELSE attendances

\* The caller is not allowed the generic Update or Delete of existing record pk.
Unauthorized(op, pk) ==
    /\ CallerRole # SUPERVISOR
    /\ op = "TaskPut" => tasks[pk].assigned_to # req'.actor
    /\ op = "AttendancePut" => attendances[pk].user # req'.actor

\* C14: generic Update and Delete of the three entities answer 404 for an id
\* that resolves to no record, whoever calls, and 401 for an existing record
\* the caller is not authorized for, writing nothing in both cases, so the
\* two answers tell an unauthorized caller whether the id exists; CompleteTask
\* called by an Intern gives one and the same 404 for an absent task and for
\* a task assigned to somebody else.
C14_ExistenceBeforeAuthorization ==
    [][/\ Called({"UserPut", "UserDelete", "TaskPut", "TaskDelete",
                  "AttendancePut", "AttendanceDelete"}) =>
             IF req'.pk \notin DOMAIN TableOf(req'.op)
             THEN /\ resp'.status = HTTP_404_NOT_FOUND
                  /\ UNCHANGED <<users, tasks, attendances>>
             ELSE Unauthorized(req'.op, req'.pk) => Denied
       /\ (Called({"MarkTaskComplete"}) /\ CallerRole = INTERN /\ NotAssignedToCaller)
             => /\ resp' = NotFound("Task not found or not assigned to you.")
                /\ UNCHANGED <<users, tasks, attendances>>
      ]_vars

\* C14 witness: an Intern's update of a task id that resolves to no record
\* was answered 404.
C14_Witness ==
    /\ req.op = "TaskPut"
    /\ req.actor \in DOMAIN users
    /\ users[req.actor].role = INTERN
    /\ req.pk \notin DOMAIN tasks
    /\ resp.status = HTTP_404_NOT_FOUND

====
